---- MODULE Spec2Model ----
(***************************************************************************)
(* Model of microscope2ome: the two-stage batch orchestrator img2ome.py    *)
(* (bioformats2raw, then raw2ometiff) and the single-stage QuPath driver   *)
(* qupath_img2ome.py.                                                      *)
(*                                                                         *)
(* A path is a sequence of components; a component (a directory or file    *)
(* name) is a sequence of character codes, so that splitext, lower and the *)
(* f-string concatenations are computed as the code computes them.         *)
(* The file system maps every existing path to a record                    *)
(*   [kind : "dir" | "file" | "zarr", src : path]                          *)
(* where a converted artifact remembers the image it was made from.        *)
(***************************************************************************)
EXTENDS Integers, Sequences, FiniteSets, TLC

VARIABLES
    fs,             \* the file system: path -> entry
    fs0,            \* the file system as it was when the current run started
    run,            \* number of the current process run (1..MaxRuns)
    prev_exit,      \* the exit status of the previous run, -1 if there was none
    prev_printed,   \* how the previous run ended (its value of printed)
    input_path,     \* args.input_path / args.input
    output_dir,     \* args.output_dir / args.output
    overwrite,      \* args.overwrite
    keep_zarr,      \* args.keep_zarr
    format,         \* args.format (QuPath driver only)
    pc,             \* position of the running process
    image_paths,    \* find_images result / files of process_directory
    idx,            \* number of items of image_paths already handled
    success_count,  \* success_count of the batch loop
    results,        \* what convert_image returned for each item handled, in order
    calls,          \* the external tool invocations of the current run, in order,
                    \* each with its outcome ("running" until the child has ended)
    printed,        \* how the current run ended: "", "none" (no images), "summary",
                    \* or the name of the exception nothing caught
    exit_code       \* -1 while running, else the process exit status

vars == <<fs, fs0, run, prev_exit, prev_printed, input_path, output_dir, overwrite, keep_zarr,
          format, pc, image_paths, idx, success_count, results, calls, printed,
          exit_code>>

----------------------------------------------------------------------------
(* Bounds of the model *)

MaxImages == 2      \* at most this many files in the input tree, and images in a batch
MaxRuns == 2        \* the program is run at most this many times over one file system
MaxTree == 3        \* files of the input tree in the discovery-only specification

----------------------------------------------------------------------------
(* Character-level string functions *)

\* str.lower(): ASCII upper-case letters are mapped to lower case
lower(s) == [i \in DOMAIN s |-> IF s[i] \in 65..90 THEN s[i] + 32 ELSE s[i]]

\* index of the last '.' of a name, 0 if there is none (str.rfind)
rfind_dot(s) ==
    IF \E i \in DOMAIN s : s[i] = 46
    THEN CHOOSE i \in DOMAIN s : s[i] = 46 /\ \A j \in DOMAIN s : s[j] = 46 => j <= i
    ELSE 0

\* os.path.splitext on a file name: <<root, ext>>; the extension starts at the
\* last dot, and leading dots of the name do not start an extension
splitext(s) ==
    LET d == rfind_dot(s) IN
    IF d > 0 /\ \E k \in 1..(d - 1) : s[k] # 46
    THEN <<SubSeq(s, 1, d - 1), SubSeq(s, d, Len(s))>>
    ELSE <<s, <<>>>>

\* str.endswith
endswith(s, suf) ==
    Len(suf) <= Len(s) /\ SubSeq(s, Len(s) - Len(suf) + 1, Len(s)) = suf

----------------------------------------------------------------------------
(* Paths *)

basename(p) == IF p = <<>> THEN <<>> ELSE p[Len(p)]
dirname(p) == IF p = <<>> THEN <<>> ELSE SubSeq(p, 1, Len(p) - 1)
join(p, q) == p \o q

IsPrefix(p, q) == Len(p) <= Len(q) /\ SubSeq(q, 1, Len(p)) = p

\* length of the longest common prefix of two paths
CommonLen(p, q) ==
    LET ks == {k \in 0..Len(p) : k <= Len(q) /\ SubSeq(p, 1, k) = SubSeq(q, 1, k)}
    IN CHOOSE k \in ks : \A j \in ks : j <= k

\* os.path.relpath(p, start): one ".." per component of start that is not
\* shared with p, then the rest of p
relpath(p, start) ==
    LET c == CommonLen(p, start) IN
    [i \in 1..(Len(start) - c) |-> <<46, 46>>] \o SubSeq(p, c + 1, Len(p))

----------------------------------------------------------------------------
(* Names used in the model *)

D_in == <<105, 110>>                                \* "in"
D_out == <<111, 117, 116>>                          \* "out"
D_a == <<97>>                                       \* "a"
D_b == <<98>>                                       \* "b"
N_x_tif == <<120, 46, 116, 105, 102>>               \* "x.tif"
N_x_png == <<120, 46, 112, 110, 103>>               \* "x.png"
N_y_PNG == <<121, 46, 80, 78, 71>>                  \* "y.PNG"
N_z_txt == <<122, 46, 116, 120, 116>>               \* "z.txt"
N_img_tif == <<105, 109, 103, 46, 116, 105, 102>>   \* "img.tif"
N_dot_tif == <<46, 116, 105, 102>>                  \* ".tif" (a hidden file)
N_s_czi == <<115, 46, 99, 122, 105>>                \* "s.czi"
N_w_CZI_bak == <<119, 46, 67, 90, 73, 46, 98>>      \* "w.CZI.b"
N_tif == <<116, 105, 102>>                          \* "tif" (no dot)

E_zarr == <<46, 122, 97, 114, 114>>                          \* ".zarr"
E_ome_tiff == <<46, 111, 109, 101, 46, 116, 105, 102, 102>>  \* ".ome.tiff"
E_ome_zarr == <<46, 111, 109, 101, 46, 122, 97, 114, 114>>   \* ".ome.zarr"

\* image_extensions of find_images
image_extensions ==
    { <<46, 116, 105, 102>>,            \* .tif
      <<46, 116, 105, 102, 102>>,       \* .tiff
      <<46, 106, 112, 103>>,            \* .jpg
      <<46, 106, 112, 101, 103>>,       \* .jpeg
      <<46, 112, 110, 103>>,            \* .png
      <<46, 110, 100, 50>>,             \* .nd2
      <<46, 99, 122, 105>>,             \* .czi
      <<46, 108, 105, 102>>,            \* .lif
      <<46, 109, 114, 120, 115>>,       \* .mrxs
      <<46, 115, 118, 115>> }           \* .svs

----------------------------------------------------------------------------
(* The file system *)

DirEntry == [kind |-> "dir", src |-> <<>>]
FileEntry == [kind |-> "file", src |-> <<>>]

exists(f, p) == p = <<>> \/ p \in DOMAIN f                      \* os.path.exists
isfile(f, p) == p \in DOMAIN f /\ f[p].kind = "file"            \* os.path.isfile
isdir(f, p) == p = <<>> \/ (p \in DOMAIN f /\ f[p].kind # "file")

Put(f, p, e) == [q \in DOMAIN f \cup {p} |-> IF q = p THEN e ELSE f[q]]
Del(f, p) == [q \in DOMAIN f \ {p} |-> f[q]]

\* all non-empty prefixes of a path
Prefixes(p) == {SubSeq(p, 1, k) : k \in 1..Len(p)}

\* os.makedirs(p, exist_ok=True): every missing prefix becomes a directory
makedirs(f, p) ==
    [q \in DOMAIN f \cup Prefixes(p) |-> IF q \in DOMAIN f THEN f[q] ELSE DirEntry]

\* a file system holding exactly the given files and their parent directories
TreeOf(files, root) ==
    LET ds == Prefixes(root) \cup UNION {Prefixes(dirname(p)) : p \in files}
    IN [q \in ds \cup files |-> IF q \in files THEN FileEntry ELSE DirEntry]

----------------------------------------------------------------------------
(* Discovery: find_images *)

\* the orderings of a finite set (os.walk lists a directory in arbitrary order)
Orderings(S) ==
    {s \in [1..Cardinality(S) -> S] : \A i, j \in 1..Cardinality(S) : s[i] = s[j] => i = j}

\* mutation: the extension is compared without lower()
is_image_case_sensitive(name) == splitext(name)[2] \in image_extensions

\* lines 15-16, 21-22: the lower-cased extension is in image_extensions
is_image(name) == lower(splitext(name)[2]) \in image_extensions

RECURSIVE walk(_, _), walk_all(_, _)
\* lines 19-23: the lists os.walk(top) and the loop over its files can produce:
\* the matching files of top itself, then each sub-directory's walk in turn
walk(f, top) ==
    LET files == {p \in DOMAIN f : dirname(p) = top /\ f[p].kind = "file"}
        dirs == {p \in DOMAIN f : dirname(p) = top /\ f[p].kind = "dir"}
    IN { SelectSeq(fl, LAMBDA p : is_image(basename(p))) \o rest :
            fl \in Orderings(files),
            rest \in UNION {walk_all(f, ds) : ds \in Orderings(dirs)} }
walk_all(f, ds) ==
    IF ds = <<>> THEN {<<>>}
    ELSE {h \o t : h \in walk(f, Head(ds)), t \in walk_all(f, Tail(ds))}

\* find_images(path): the set of lists it can return
find_images(f, path) ==
    IF isfile(f, path)
    THEN IF is_image(basename(path)) THEN {<<path>>} ELSE {<<>>}
    ELSE IF path \in DOMAIN f THEN walk(f, path) ELSE {<<>>}

----------------------------------------------------------------------------
(* img2ome.py: the item under conversion and its paths *)

\* the files an input tree may hold
InFiles ==
    { <<D_in, N_x_tif>>, <<D_in, N_x_png>>, <<D_in, N_z_txt>>,
      <<D_in, D_a, D_b, N_img_tif>> }

\* main, line 104: the directory relative paths are taken from
input_dir == IF isfile(fs0, input_path) THEN dirname(input_path) ELSE input_path

\* the loop variable image_path of main, line 137
image_path == image_paths[idx + 1]

\* mutation: every output is written directly into output_dir
output_subdir_flat(img) == output_dir

\* main, lines 138-139
rel_path(img) == relpath(img, input_dir)
output_subdir(img) == join(output_dir, dirname(rel_path(img)))

\* convert_image, lines 28-30
image_name(img) == splitext(basename(img))[1]
zarr_dir(img) == join(output_subdir(img), <<image_name(img) \o E_zarr>>)
ometiff_path(img) == join(output_subdir(img), <<image_name(img) \o E_ome_tiff>>)

ZarrEntry(img) == [kind |-> "zarr", src |-> img]
TiffEntry(img) == [kind |-> "file", src |-> img]

\* one external tool invocation: the image it belongs to, what it reads and
\* writes, and how it ended
Call(tool, img, a, b, res) ==
    [tool |-> tool, img |-> img, src |-> a, dst |-> b, result |-> res]

\* the child process of the last invocation has ended with the given outcome
Ended(res) == [calls EXCEPT ![Len(calls)].result = res]

----------------------------------------------------------------------------
(* img2ome.py: control flow *)

\* the process ends with the given status
Exit(code, said) ==
    /\ pc' = "exited"
    /\ exit_code' = code
    /\ printed' = said
    /\ UNCHANGED <<prev_exit, prev_printed>>

\* an exception nothing catches: traceback, interpreter exit status 1
Crash(exc) == Exit(1, exc) /\ UNCHANGED <<idx, success_count, results>>

\* mutation: the counter is advanced for every item, converted or not
ItemDone_counts_every_item(ok) ==
    /\ pc' = "loop"
    /\ idx' = idx + 1
    /\ success_count' = success_count + 1
    /\ results' = Append(results, ok)
    /\ UNCHANGED <<exit_code, printed, prev_exit, prev_printed>>

\* convert_image returned ok: lines 141-142, back to the head of the loop
ItemDone(ok) ==
    /\ pc' = "loop"
    /\ idx' = idx + 1
    /\ success_count' = IF ok THEN success_count + 1 ELSE success_count
    /\ results' = Append(results, ok)
    /\ UNCHANGED <<exit_code, printed, prev_exit, prev_printed>>

\* main, lines 101-110: create the output directory, discover, refuse an empty
\* batch (directory creation is taken to succeed)
Main ==
    /\ pc = "start"
    /\ fs' = makedirs(fs, output_dir)
    /\ \E found \in find_images(fs', input_path) :
         /\ Len(found) <= MaxImages
         /\ image_paths' = found
         /\ IF found = <<>>
            THEN Exit(1, "none")
            ELSE /\ pc' = "loop"
                 /\ UNCHANGED <<exit_code, printed, prev_exit, prev_printed>>
    /\ UNCHANGED <<idx, success_count, results>>
    /\ UNCHANGED <<fs0, run, input_path, output_dir, overwrite, keep_zarr, format, calls>>

\* mutation: an existing output is converted again although overwrite is off
check_existing_no_skip(f, tiff, ow, rm) ==
    IF exists(f, tiff) /\ ow
    THEN IF rm /\ isfile(f, tiff) THEN "removed" ELSE "remove_failed"
    ELSE "convert"

\* mutation: a failed removal of the existing output is ignored
check_existing_ignore_remove_error(f, tiff, ow, rm) ==
    IF exists(f, tiff)
    THEN IF ow
         THEN IF rm /\ isfile(f, tiff) THEN "removed" ELSE "convert"
         ELSE "skip"
    ELSE "convert"

\* convert_image, lines 33-42: what is done about an existing OME-TIFF; rm tells
\* whether os.remove succeeds (it raises OSError on anything but a file)
check_existing(f, tiff, ow, rm) ==
    IF exists(f, tiff)
    THEN IF ow
         THEN IF rm /\ isfile(f, tiff) THEN "removed" ELSE "remove_failed"
         ELSE "skip"
    ELSE "convert"

\* mutation: a skipped image is reported as a failure
skip_result_false == FALSE

\* convert_image, line 42: the value returned for a skipped image
skip_result == TRUE

\* main, lines 137-141 and convert_image, lines 28-42: the output sub-directory
\* is created, then an existing OME-TIFF is skipped or removed
BeginItem ==
    /\ pc = "loop"
    /\ idx < Len(image_paths)
    /\ LET img == image_path
           made == makedirs(fs, output_subdir(img))
           tiff == ometiff_path(img)
       IN \E rm \in BOOLEAN :
            LET todo == check_existing(made, tiff, overwrite, rm) IN
            CASE todo = "skip" -> fs' = made /\ ItemDone(skip_result)
              [] todo = "remove_failed" -> fs' = made /\ ItemDone(FALSE)
              [] todo \in {"removed", "convert"} ->
                   /\ fs' = IF todo = "removed" THEN Del(made, tiff) ELSE made
                   /\ pc' = "bf2raw"
                   /\ UNCHANGED <<idx, success_count, results, exit_code, printed,
                                  prev_exit, prev_printed>>
    /\ UNCHANGED <<fs0, run, input_path, output_dir, overwrite, keep_zarr, format,
                   image_paths, calls>>

\* mutation: stage 1 is started without waiting for it to end
after_launch_no_wait(tool) ==
    IF tool = "bioformats2raw" THEN "raw2ometiff" ELSE "raw2ometiff_wait"

\* subprocess.run(..., check=True), lines 49 and 59: the caller is blocked
\* until the child it started has ended
after_launch(tool) ==
    IF tool = "bioformats2raw" THEN "bf2raw_wait" ELSE "raw2ometiff_wait"

\* convert_image, lines 45-49: stage 1 is launched.  subprocess.run either
\* starts the child and blocks until it ends, or cannot launch it
\* (FileNotFoundError, which line 50 does not catch)
RunBf2raw ==
    /\ pc = "bf2raw"
    /\ LET img == image_path IN
       \E launched \in BOOLEAN :
         IF launched
         THEN /\ calls' = Append(calls, Call("bioformats2raw", img, img, zarr_dir(img),
                                             "running"))
              /\ pc' = after_launch("bioformats2raw")
              /\ UNCHANGED <<idx, success_count, results, exit_code, printed, prev_exit,
                             prev_printed>>
         ELSE /\ calls' = Append(calls, Call("bioformats2raw", img, img, zarr_dir(img),
                                             "nolaunch"))
              /\ Crash("FileNotFoundError")
    /\ UNCHANGED <<fs, fs0, run, input_path, output_dir, overwrite, keep_zarr, format,
                   image_paths>>

\* convert_image, lines 49-52: where convert_image goes on when stage 1 has
\* ended: on to stage 2, or return False ("return")
after_bf2raw(res) == IF res = "ok" THEN "raw2ometiff" ELSE "return"

\* convert_image, lines 49-52: the child of stage 1 ends.  It exits zero having
\* written the zarr directory, or exits non-zero or is killed by a signal
\* (CalledProcessError, caught; it is taken to leave the file system as it was)
Bf2rawExits ==
    /\ pc = "bf2raw_wait"
    /\ LET img == image_path IN
       \E res \in {"ok", "fail"} :
         /\ calls' = Ended(res)
         /\ fs' = IF res = "ok" THEN Put(fs, zarr_dir(img), ZarrEntry(img)) ELSE fs
         /\ IF after_bf2raw(res) = "raw2ometiff"
            THEN /\ pc' = "raw2ometiff"
                 /\ UNCHANGED <<idx, success_count, results, exit_code, printed, prev_exit,
                                prev_printed>>
            ELSE ItemDone(FALSE)
    /\ UNCHANGED <<fs0, run, input_path, output_dir, overwrite, keep_zarr, format, image_paths>>

\* convert_image, lines 55-59: stage 2 is launched, as stage 1 was
RunRaw2ometiff ==
    /\ pc = "raw2ometiff"
    /\ LET img == image_path IN
       \E launched \in BOOLEAN :
         IF launched
         THEN /\ calls' = Append(calls, Call("raw2ometiff", img, zarr_dir(img),
                                             ometiff_path(img), "running"))
              /\ pc' = after_launch("raw2ometiff")
              /\ UNCHANGED <<idx, success_count, results, exit_code, printed, prev_exit,
                             prev_printed>>
         ELSE /\ calls' = Append(calls, Call("raw2ometiff", img, zarr_dir(img),
                                             ometiff_path(img), "nolaunch"))
              /\ Crash("FileNotFoundError")
    /\ UNCHANGED <<fs, fs0, run, input_path, output_dir, overwrite, keep_zarr, format,
                   image_paths>>

\* convert_image, lines 59-68: the child of stage 2 ends, having read the zarr
\* directory and written the OME-TIFF if it exits zero; on success the zarr
\* directory is removed unless keep_zarr, and an rmtree that fails raises past
\* convert_image
Raw2ometiffExits ==
    /\ pc = "raw2ometiff_wait"
    /\ LET img == image_path
           zarr == zarr_dir(img)
           tiff == ometiff_path(img)
           from == IF zarr \in DOMAIN fs THEN fs[zarr].src ELSE <<>>
           written == Put(fs, tiff, TiffEntry(from))
       IN \E res \in {"ok", "fail"}, rm \in BOOLEAN :
         /\ calls' = Ended(res)
         /\ IF res = "ok"
            THEN IF ~keep_zarr /\ exists(written, zarr)
                 THEN IF rm
                      THEN fs' = Del(written, zarr) /\ ItemDone(TRUE)
                      ELSE fs' = written /\ Crash("OSError")
                 ELSE fs' = written /\ ItemDone(TRUE)
            ELSE fs' = fs /\ ItemDone(FALSE)
    /\ UNCHANGED <<fs0, run, input_path, output_dir, overwrite, keep_zarr, format, image_paths>>

\* mutation: the exit status ignores failed conversions
exit_status_always_zero(succeeded, total) == 0

\* main, lines 145-146: the exit status after the loop
exit_status(succeeded, total) == IF succeeded < total THEN 1 ELSE 0

\* main, lines 144-146: the summary and the exit status
Finish ==
    /\ pc = "loop"
    /\ idx = Len(image_paths)
    /\ Exit(exit_status(success_count, Len(image_paths)), "summary")
    /\ UNCHANGED <<fs, fs0, run, input_path, output_dir, overwrite, keep_zarr, format,
                   image_paths, idx, success_count, results, calls>>

\* the user runs the same command line again over the file system the last run left
Rerun ==
    /\ pc = "exited"
    /\ run < MaxRuns
    /\ run' = run + 1
    /\ fs0' = fs
    /\ prev_exit' = exit_code
    /\ prev_printed' = printed
    /\ pc' = "start"
    /\ image_paths' = <<>>
    /\ idx' = 0
    /\ success_count' = 0
    /\ results' = <<>>
    /\ calls' = <<>>
    /\ printed' = ""
    /\ exit_code' = -1
    /\ UNCHANGED <<fs, input_path, output_dir, overwrite, keep_zarr, format>>

Init ==
    /\ \E tree \in SUBSET InFiles :
         /\ Cardinality(tree) <= MaxImages
         /\ fs = TreeOf(tree, <<D_in>>)
         \* a single-file input never touches the other files of the tree
         /\ input_path \in {<<D_in>>} \cup (IF Cardinality(tree) = 1 THEN tree ELSE {})
         \* outputs written into the input directory are discovered by the next
         \* run, so such a tree leaves room for them in the batch
         /\ output_dir \in {<<D_out>>} \cup
                           (IF Cardinality(tree) < MaxImages THEN {<<D_in>>} ELSE {})
    /\ fs0 = fs
    /\ overwrite \in BOOLEAN
    /\ keep_zarr \in BOOLEAN
    /\ format = "tiff"
    /\ run = 1
    /\ prev_exit = -1
    /\ prev_printed = ""
    /\ pc = "start"
    /\ image_paths = <<>>
    /\ idx = 0
    /\ success_count = 0
    /\ results = <<>>
    /\ calls = <<>>
    /\ printed = ""
    /\ exit_code = -1

Next ==
    \/ Main \/ BeginItem \/ RunBf2raw \/ Bf2rawExits \/ RunRaw2ometiff \/ Raw2ometiffExits
    \/ Finish \/ Rerun

Spec == Init /\ [][Next]_vars

\* One run of the script, from its start to its exit
Step ==
    \/ Main \/ BeginItem \/ RunBf2raw \/ Bf2rawExits \/ RunRaw2ometiff \/ Raw2ometiffExits
    \/ Finish

\* One run under the scheduling the interpreter gives it: the script is one
\* thread that waits for nothing but the child it started, so a step that can
\* be taken is taken, and a child that was started ends.
SpecFair == Init /\ [][Step]_vars /\ WF_vars(Step)

----------------------------------------------------------------------------
(* Discovery on its own: find_images applied to a tree of varied names *)

FindFiles ==
    { <<D_in, N_x_tif>>, <<D_in, N_y_PNG>>, <<D_in, N_z_txt>>, <<D_in, N_dot_tif>>,
      <<D_in, N_w_CZI_bak>>, <<D_in, N_tif>>, <<D_in, D_a, N_s_czi>>,
      <<D_in, D_a, D_b, N_img_tif>>, <<D_in, D_a, D_b, N_x_tif>> }

Idle ==
    /\ fs0 = fs
    /\ run = 1
    /\ prev_exit = -1
    /\ prev_printed = ""
    /\ overwrite = FALSE
    /\ keep_zarr = FALSE
    /\ pc = "start"
    /\ image_paths = <<>>
    /\ idx = 0
    /\ success_count = 0
    /\ results = <<>>
    /\ calls = <<>>
    /\ printed = ""
    /\ exit_code = -1

InitFind ==
    /\ \E tree \in SUBSET FindFiles :
         /\ Cardinality(tree) <= MaxTree
         /\ fs = TreeOf(tree, <<D_in>>)
         /\ input_path \in {<<D_in>>, <<D_in, D_a>>} \cup tree
    /\ output_dir = <<D_out>>
    /\ format = "tiff"
    /\ Idle

\* main, line 105: image_paths = find_images(input_path)
Discover ==
    /\ pc = "start"
    /\ image_paths' \in find_images(fs, input_path)
    /\ pc' = "found"
    /\ UNCHANGED <<fs, fs0, run, prev_exit, prev_printed, input_path, output_dir, overwrite,
                   keep_zarr, format, idx, success_count, results, calls, printed,
                   exit_code>>

SpecFind == InitFind /\ [][Discover]_vars

----------------------------------------------------------------------------
(* qupath_img2ome.py *)

N_r_ome_zarr == <<114>> \o E_ome_zarr       \* "r.ome.zarr"

\* default of --extensions, line 160
extensions ==
    << <<46, 116, 105, 102>>,           \* .tif
       <<46, 116, 105, 102, 102>>,      \* .tiff
       <<46, 115, 118, 115>>,           \* .svs
       <<46, 110, 100, 112, 105>>,      \* .ndpi
       <<46, 106, 112, 103>>,           \* .jpg
       <<46, 106, 112, 101, 103>>,      \* .jpeg
       <<46, 112, 110, 103>>,           \* .png
       <<46, 99, 122, 105>> >>          \* .czi

\* the files an input directory of the QuPath driver may hold
QFiles == { <<D_in, N_x_tif>>, <<D_in, N_x_png>>, <<D_in, N_z_txt>>, <<D_in, N_s_czi>> }

RECURSIVE glob_all(_, _, _)
\* process_directory, lines 115-117: files.extend(input_path.glob("*" + ext)) for
\* each extension in turn; one glob lists its matches in arbitrary order
glob_all(f, dir, exts) ==
    IF exts = <<>> THEN {<<>>}
    ELSE LET hits == {p \in DOMAIN f : dirname(p) = dir /\ endswith(basename(p), Head(exts))}
         IN {h \o t : h \in Orderings(hits), t \in glob_all(f, dir, Tail(exts))}

\* process_directory, lines 126-129: the output file of one input file
output_file(file) ==
    join(output_dir,
         <<splitext(basename(file))[1] \o (IF format = "tiff" THEN E_ome_tiff ELSE E_ome_zarr)>>)

\* main, lines 251-256: the output path of a single-file conversion
single_output ==
    LET name == basename(output_dir) IN
    IF endswith(name, E_ome_tiff) \/ endswith(name, E_ome_zarr)
    THEN output_dir
    ELSE join(dirname(output_dir),
              <<name \o (IF format = "tiff" THEN E_ome_tiff ELSE E_ome_zarr)>>)

\* the exit status of a run of main that returns normally: main has no
\* sys.exit but the one for a missing input, line 305
q_exit_status(succeeded, total) == 0

Unused == UNCHANGED <<fs0, run, prev_exit, prev_printed, keep_zarr>>

\* main, lines 243-305, and process_directory up to its loop, lines 108-124
QMain ==
    /\ pc = "start"
    /\ IF isfile(fs, input_path)
       THEN /\ image_paths' = <<input_path>>
            /\ pc' = "single"
            /\ UNCHANGED <<fs, printed, exit_code>>
       ELSE IF isdir(fs, input_path)
       THEN /\ fs' = makedirs(fs, output_dir)
            /\ \E files \in glob_all(fs', input_path, extensions) :
                 /\ image_paths' = files
                 /\ IF files = <<>>
                    THEN pc' = "exited" /\ printed' = "none" /\ exit_code' = 0
                    ELSE pc' = "loop" /\ UNCHANGED <<printed, exit_code>>
       ELSE /\ pc' = "exited"
            /\ printed' = "missing"
            /\ exit_code' = 1
            /\ UNCHANGED <<fs, image_paths>>
    /\ UNCHANGED <<input_path, output_dir, overwrite, format, idx, success_count, results,
                   calls>>
    /\ Unused

\* convert_image, lines 50-89, called from line 131 or line 259: QuPath exits
\* zero having written the output (True), exits non-zero (CalledProcessError,
\* False), or cannot be launched (FileNotFoundError, not caught)
QConvert ==
    /\ pc \in {"loop", "single"}
    /\ idx < Len(image_paths)
    /\ LET file == image_path
           out == IF pc = "single" THEN single_output ELSE output_file(file)
       IN \E res \in {"ok", "fail", "nolaunch"} :
            /\ calls' = Append(calls, Call("QuPath", file, file, out, res))
            /\ fs' = IF res = "ok"
                     THEN Put(fs, out, [kind |-> IF endswith(basename(out), E_ome_zarr)
                                                 THEN "zarr" ELSE "file",
                                        src |-> file])
                     ELSE fs
            /\ IF res = "nolaunch"
               THEN /\ pc' = "exited"
                    /\ printed' = "FileNotFoundError"
                    /\ exit_code' = 1
                    /\ UNCHANGED <<idx, success_count, results>>
               ELSE /\ idx' = idx + 1
                    /\ results' = Append(results, res = "ok")
                    /\ success_count' =
                           IF res = "ok" /\ pc = "loop" THEN success_count + 1
                           ELSE success_count
                    /\ UNCHANGED <<pc, printed, exit_code>>
    /\ UNCHANGED <<input_path, output_dir, overwrite, format, image_paths>>
    /\ Unused

\* process_directory, line 134, and the return from main
QFinish ==
    /\ pc \in {"loop", "single"}
    /\ idx = Len(image_paths)
    /\ pc' = "exited"
    /\ printed' = IF pc = "loop" THEN "summary" ELSE "single"
    /\ exit_code' = q_exit_status(success_count, Len(image_paths))
    /\ UNCHANGED <<fs, input_path, output_dir, overwrite, format, image_paths, idx,
                   success_count, results, calls>>
    /\ Unused

InitQ ==
    /\ \E tree \in SUBSET QFiles :
         /\ Cardinality(tree) <= MaxImages
         /\ fs = TreeOf(tree, <<D_in>>)
         /\ input_path \in {<<D_in>>, <<D_a>>} \cup tree
    /\ output_dir \in {<<D_out>>, <<D_out, N_r_ome_zarr>>}
    /\ format \in {"tiff", "zarr"}
    /\ Idle

NextQ == QMain \/ QConvert \/ QFinish

SpecQ == InitQ /\ [][NextQ]_vars

----------------------------------------------------------------------------
(* Properties of img2ome.py *)

AllSucceeded ==
    /\ Len(results) = Len(image_paths)
    /\ \A i \in DOMAIN results : results[i]

\* C1: a finished run has exit status 0 or 1, and it is 0 exactly when at least
\* one image was discovered and convert_image returned True for every
\* discovered image; an empty batch, a failed item and an uncaught launch
\* failure all end with status 1.
ExitCodeContract ==
    pc = "exited" =>
        /\ exit_code \in {0, 1}
        /\ exit_code = 0 <=> (image_paths # <<>> /\ AllSucceeded)

\* C1 witness: a run that failed is followed by a run in which the stages ran
\* and every image converted
ExitCodeWitness ==
    /\ pc = "exited"
    /\ prev_exit = 1
    /\ exit_code = 0
    /\ calls # <<>>

\* C2: a run that discovered images ends only after every image was handled
\* (convert_image returned for each, in discovery order) and the summary was
\* printed.
BatchNeverAborts ==
    (pc = "exited" /\ image_paths # <<>>) =>
        /\ Len(results) = Len(image_paths)
        /\ idx = Len(image_paths)
        /\ printed = "summary"

\* C3, the case the claim singles out: when convert_image has returned False
\* after stage 2 was invoked for the item (so stage 1 had succeeded) and
\* keep_zarr is false, the item's zarr directory does not exist.
CleanupAfterStage2Failure ==
    (/\ pc = "loop"
     /\ idx > 0
     /\ ~keep_zarr
     /\ ~results[idx]
     /\ calls # <<>>
     /\ calls[Len(calls)] =
            Call("raw2ometiff", image_paths[idx], zarr_dir(image_paths[idx]),
                 ometiff_path(image_paths[idx]), "fail"))
    => ~exists(fs, zarr_dir(image_paths[idx]))

\* C4: handling an image whose OME-TIFF exists, with overwrite off, is one step
\* that returns True, invokes no tool and leaves the whole file system as it was.
SkipIsIdempotent ==
    [][ (/\ pc = "loop"
         /\ idx < Len(image_paths)
         /\ ~overwrite
         /\ exists(fs, ometiff_path(image_path)))
        => (/\ fs' = fs
            /\ calls' = calls
            /\ results' = Append(results, TRUE)
            /\ success_count' = success_count + 1
            /\ pc' = "loop") ]_vars

\* C4 witness: in a second run with overwrite off the first image was skipped
SkipWitness ==
    /\ run = 2
    /\ ~overwrite
    /\ pc = "loop"
    /\ idx = 1
    /\ results = <<TRUE>>
    /\ calls = <<>>
    /\ exists(fs, ometiff_path(image_paths[1]))

\* what a finished run looks like when every item was skipped
AllSkipped ==
    /\ exit_code = 0
    /\ image_paths # <<>>
    /\ AllSucceeded
    /\ success_count = Len(image_paths)
    /\ calls = <<>>
    /\ fs = fs0

OverwriteRemovesFirst ==
    [][ (/\ pc = "loop"
         /\ idx < Len(image_paths)
         /\ overwrite
         /\ exists(fs, ometiff_path(image_path)))
        => \/ /\ pc' = "bf2raw"
              /\ ~exists(fs', ometiff_path(image_path))
              /\ calls' = calls
              /\ results' = results
           \/ /\ pc' = "loop"
              /\ results' = Append(results, FALSE)
              /\ success_count' = success_count
              /\ calls' = calls
              /\ fs' = fs ]_vars

\* C6 witness: the removal failed for the first image of a second run: it was
\* reported failed, nothing was invoked and the file is still there
OverwriteFailureWitness ==
    /\ run = 2
    /\ overwrite
    /\ pc = "loop"
    /\ idx = 1
    /\ results = <<FALSE>>
    /\ calls = <<>>
    /\ isfile(fs, ometiff_path(image_paths[1]))

\* the directory part <d> of an image below the input root, and its stem
InputRoot ==
    IF isfile(fs0, input_path) THEN SubSeq(input_path, 1, Len(input_path) - 1)
    ELSE input_path
SubdirOf(img) == SubSeq(img, Len(InputRoot) + 1, Len(img) - 1)
\* dst is output_dir/<d>/<stem>.ome.tiff for the image root/<d>/<stem>.<ext>
MirrorsInput(img, dst) ==
    LET name == img[Len(img)] IN
    /\ SubSeq(img, 1, Len(InputRoot)) = InputRoot
    /\ \E k \in 2..Len(name) :
         /\ name[k] = 46
         /\ \A j \in (k + 1)..Len(name) : name[j] # 46
         /\ dst = output_dir \o SubdirOf(img) \o <<SubSeq(name, 1, k - 1) \o E_ome_tiff>>

\* C7: the final path given to raw2ometiff for the image root/<d>/<stem>.<ext>
\* is output_dir/<d>/<stem>.ome.tiff; output_dir/<d> is a directory whenever a
\* stage of the item is about to run, and it still is after the item was
\* handled, failed or not.
DirectoryStructurePreserved ==
    /\ \A i \in DOMAIN calls :
         calls[i].tool = "raw2ometiff" => MirrorsInput(calls[i].img, calls[i].dst)
    /\ pc \in {"bf2raw", "raw2ometiff"} => isdir(fs, output_dir \o SubdirOf(image_path))
    /\ \A i \in DOMAIN results : isdir(fs, output_dir \o SubdirOf(image_paths[i]))

\* C7 witness: stage 2 was invoked for in/a/b/img.tif and failed; out/a/b exists
DirectoryStructureWitness ==
    /\ pc = "loop"
    /\ idx > 0
    /\ image_paths[idx] = <<D_in, D_a, D_b, N_img_tif>>
    /\ ~results[idx]
    /\ output_dir = <<D_out>>
    /\ calls # <<>>
    /\ calls[Len(calls)].tool = "raw2ometiff"
    /\ calls[Len(calls)].img = image_paths[idx]
    /\ isdir(fs, <<D_out, D_a, D_b>>)

\* C8: a run that found no image reports it, exits with status 1 before any
\* iteration, invokes no tool and has created no directory.
NothingToConvertCreatesNothing ==
    (pc = "exited" /\ printed = "none") =>
        /\ exit_code = 1
        /\ idx = 0
        /\ calls = <<>>
        /\ fs = fs0

----------------------------------------------------------------------------
(* Properties of find_images *)

\* upper-case form of a character
Fold(c) == IF c \in 97..122 THEN c - 32 ELSE c
SameIgnoringCase(a, b) ==
    Len(a) = Len(b) /\ \A i \in 1..Len(a) : Fold(a[i]) = Fold(b[i])
\* the name is <stem><ext> with ext a recognized extension in any letter case
\* and a stem that is not made of dots only
HasRecognizedExtension(name) ==
    \E e \in image_extensions :
        /\ Len(name) > Len(e)
        /\ SameIgnoringCase(SubSeq(name, Len(name) - Len(e) + 1, Len(name)), e)
        /\ \E k \in 1..(Len(name) - Len(e)) : name[k] # 46

FilesBeneath(f, root) ==
    {p \in DOMAIN f : f[p].kind = "file" /\ Len(p) > Len(root)
                      /\ SubSeq(p, 1, Len(root)) = root}

\* C9: for a directory root the list find_images returns holds, each exactly
\* once, exactly the files at any depth beneath root whose extension is, letter
\* case ignored, a recognized one; for a single-file root it is that file if
\* its extension is recognized and empty otherwise.
DiscoveryExact ==
    pc = "found" =>
        IF input_path \in DOMAIN fs /\ fs[input_path].kind = "file"
        THEN image_paths = IF HasRecognizedExtension(input_path[Len(input_path)])
                           THEN <<input_path>> ELSE <<>>
        ELSE /\ \A i, j \in DOMAIN image_paths : image_paths[i] = image_paths[j] => i = j
             /\ {image_paths[i] : i \in DOMAIN image_paths} =
                    {p \in FilesBeneath(fs, input_path) : HasRecognizedExtension(p[Len(p)])}

\* C9 witness: the directory holds x.tif, y.PNG and z.txt, and two images were found
DiscoveryWitness ==
    /\ pc = "found"
    /\ input_path = <<D_in>>
    /\ FilesBeneath(fs, <<D_in>>) = {<<D_in, N_x_tif>>, <<D_in, N_y_PNG>>, <<D_in, N_z_txt>>}
    /\ Len(image_paths) = 2

----------------------------------------------------------------------------
(* Stages, cleanup and counters of img2ome.py *)

\* the item of the current run that the image belongs to, as a set of indices
\* into results (empty while the item has no result)
ResultOf(img) == {k \in DOMAIN results : k \in DOMAIN image_paths /\ image_paths[k] = img}

\* C11: every stage invocation that ended in a failure of any category
\* (non-zero exit or signal, or the executable could not be launched) made
\* convert_image return False for its item: the item has a result and the
\* result is False.
StageFailureContained ==
    \A i \in DOMAIN calls :
        calls[i].result \in {"fail", "nolaunch"} =>
            \E k \in ResultOf(calls[i].img) : ~results[k]

\* C12: stage 2 is invoked only right after stage 1 of the same image has
\* ended successfully and reads the path stage 1 wrote; after a stage 1 that
\* failed, in any category, no stage 2 follows for the image and the image is
\* reported as failed.
StageOrdering ==
    \A i \in DOMAIN calls :
        /\ calls[i].tool = "raw2ometiff" =>
              /\ i > 1
              /\ calls[i - 1].tool = "bioformats2raw"
              /\ calls[i - 1].img = calls[i].img
              /\ calls[i - 1].result = "ok"
              /\ calls[i - 1].dst = calls[i].src
        /\ (calls[i].tool = "bioformats2raw" /\ calls[i].result \in {"fail", "nolaunch"}) =>
              /\ \A j \in DOMAIN calls :
                    calls[j].img = calls[i].img => calls[j].tool # "raw2ometiff"
              /\ \E k \in ResultOf(calls[i].img) : ~results[k]

\* C13: an item whose two stages both succeeded is reported as success and
\* counted, whether or not the removal of the zarr directory succeeded, and
\* no run ends on a removal that failed.
CleanupFailureTolerated ==
    /\ printed # "OSError"
    /\ \A i \in DOMAIN calls :
          (calls[i].tool = "raw2ometiff" /\ calls[i].result = "ok") =>
              \E k \in ResultOf(calls[i].img) : results[k]

\* C14: two distinct discovered images of one batch have distinct OME-TIFF
\* paths and distinct zarr directories.
OutputPathsUnique ==
    \A i, j \in DOMAIN image_paths :
        i # j => /\ ometiff_path(image_paths[i]) # ometiff_path(image_paths[j])
                 /\ zarr_dir(image_paths[i]) # zarr_dir(image_paths[j])

\* the number of conversions that returned True
NumTrue(seq) == Cardinality({i \in DOMAIN seq : seq[i]})

\* C15: in every state 0 <= success_count <= items processed <= discovered
\* images, success_count is the number of processed items whose conversion
\* returned True, and when the summary is printed every discovered image has
\* been processed, so the total it reports is the number of discovered images.
CounterInvariant ==
    /\ 0 <= success_count
    /\ success_count <= idx
    /\ idx <= Len(image_paths)
    /\ Len(results) = idx
    /\ success_count = NumTrue(results)
    /\ printed = "summary" => idx = Len(image_paths)

\* C15 witness: two items were processed, one converted and one failed
CounterWitness ==
    /\ pc = "loop"
    /\ idx = 2
    /\ success_count = 1
    /\ \E i \in DOMAIN results : ~results[i]

\* C16: when the batch has finished, the OME-TIFF of every item counted as
\* succeeded exists.
SucceededArtifactsExist ==
    (pc = "exited" /\ printed = "summary") =>
        \A i \in DOMAIN results :
            results[i] => exists(fs, ometiff_path(image_paths[i]))

\* the invocations whose child has not ended
InFlight == {i \in DOMAIN calls : calls[i].result = "running"}

\* each image has at most one invocation of each tool, and at most one child
\* is running
StagesBounded ==
    /\ \A i, j \in DOMAIN calls :
          (calls[i].img = calls[j].img /\ calls[i].tool = calls[j].tool) => i = j
    /\ Cardinality(InFlight) <= 1

\* C17: a batch that has its list of images ends, every child ending once
\* started, and at no time has an image more than one invocation of a stage
\* or the batch more than one child running.
BatchTerminates ==
    /\ []StagesBounded
    /\ (pc \in {"loop", "bf2raw", "bf2raw_wait", "raw2ometiff", "raw2ometiff_wait"})
          ~> (pc = "exited")

\* C17 witness: a batch of two images ran both stages for each and ended
BatchTerminatesWitness ==
    /\ pc = "exited"
    /\ printed = "summary"
    /\ Len(image_paths) = 2
    /\ Len(calls) = 4
    /\ InFlight = {}


----------------------------------------------------------------------------
(* Properties of qupath_img2ome.py *)

\* C10: a run of the QuPath driver in which a conversion returned False (a
\* directory batch with succeeded < total, or the single file) ends with a
\* non-zero exit status.
QFailureExitsNonZero ==
    (/\ pc = "exited"
     /\ printed \in {"summary", "single"}
     /\ \E i \in DOMAIN results : ~results[i])
    => exit_code # 0

====
